---- MODULE Spec2Model ----
(***************************************************************************)
(* Model of toy-debugger: the Process controller (src/src/process.rs) and  *)
(* the command loop of the td binary (src/src/bin/td/main.rs), together    *)
(* with the one operating-system process (the tracee) they act on.         *)
(*                                                                         *)
(* The debugger is single threaded.  Each action below is the code between *)
(* two operating-system calls; the tracee runs concurrently, so its own    *)
(* steps (stopping on a signal, exiting, dying) are separate actions.      *)
(***************************************************************************)
EXTENDS Naturals, Sequences, FiniteSets, TLC

\* Longest input line enumerated in full over Alphabet.
MaxLineLen == 3

-----------------------------------------------------------------------------
(* Option<T>: None is the empty sequence, Some(x) the one-element sequence. *)
None == <<>>
Some(x) == <<x>>

(* Strings are sequences of one-character strings. *)
Alphabet == {"c", "o", "x", " "}
CommandName == <<"c", "o", "n", "t", "i", "n", "u", "e">>
ExtraLines ==
    { CommandName,
      CommandName \o <<"s">>,
      CommandName \o <<" ", "x">>,
      <<"c", "o", "n", "t">>,
      <<" ", " ", "c", "o", " ", "x">>,
      <<"x", " ", "c", "o", "n">> }
Lines == UNION { [1..k -> Alphabet] : k \in 0..MaxLineLen } \cup ExtraLines

(* char::is_whitespace, on the modelled alphabet. *)
IsWhitespace(ch) == ch = " "

RECURSIVE SkipWhitespace(_)
SkipWhitespace(s) ==
    IF s = <<>> THEN <<>>
    ELSE IF IsWhitespace(Head(s)) THEN SkipWhitespace(Tail(s))
    ELSE s

RECURSIVE TakeWord(_)
TakeWord(s) ==
    IF s = <<>> THEN <<>>
    ELSE IF IsWhitespace(Head(s)) THEN <<>>
    ELSE <<Head(s)>> \o TakeWord(Tail(s))

(* line.split_whitespace().next().unwrap_or_default() *)
FirstToken(ln) == TakeWord(SkipWhitespace(ln))

StartsWith_ExactOnly(s, p) == s = p
(* str::starts_with *)
StartsWith(s, p) == Len(p) <= Len(s) /\ SubSeq(s, 1, Len(p)) = p

(* "continue".starts_with(command) *)
IsContinue(command) == StartsWith(CommandName, command)

-----------------------------------------------------------------------------
(* Startup arguments (struct Cli): each is an Option.  The paths: "good"  *)
(* names a program, "missing" names nothing, "nul" holds a NUL byte (a     *)
(* Path may; the argument vector of td cannot, a caller of launch can).    *)
PidArgs == {0, 7}
ChildPids == {8}
PathArgs == {"good", "missing", "nul"}
ArgSets == [pid : {None} \cup {Some(p) : p \in PidArgs},
            path : {None} \cup {Some(p) : p \in PathArgs}]

(* nix WaitStatus, the shapes waitpid(pid, None) yields with no ptrace     *)
(* options set: Exited, Signaled, Stopped.  NoStatus: nothing reported.    *)
NoStatus == [kind |-> "None", code |-> 0, sig |-> "-"]
WExited(c) == [kind |-> "Exited", code |-> c, sig |-> "-"]
WSignaled(s) == [kind |-> "Signaled", code |-> 0, sig |-> s]
WStopped(s) == [kind |-> "Stopped", code |-> 0, sig |-> s]

(* struct StopReason and its conversion from WaitStatus. *)
NoReason == [reason |-> "None", exit_status |-> None, signal |-> None]
StopReasonFrom_FieldsDropped(status) ==
    [reason |-> CASE status.kind = "Exited" -> "Exited"
                  [] status.kind = "Signaled" -> "Terminated"
                  [] status.kind = "Stopped" -> "Stopped",
     exit_status |-> None, signal |-> None]
(* impl From<WaitStatus> for StopReason *)
StopReasonFrom(status) ==
    CASE status.kind = "Exited" ->
             [reason |-> "Exited", exit_status |-> Some(status.code), signal |-> None]
      [] status.kind = "Signaled" ->
             [reason |-> "Terminated", exit_status |-> None, signal |-> Some(status.sig)]
      [] status.kind = "Stopped" ->
             [reason |-> "Stopped", exit_status |-> None, signal |-> Some(status.sig)]

(* struct Process.  NoProcess stands for "no value constructed yet". *)
NoProcess == [pid |-> 0, terminate_on_end |-> FALSE, state |-> "Stopped"]
NewProcess(pid, owns) == [pid |-> pid, terminate_on_end |-> owns, state |-> "Stopped"]

-----------------------------------------------------------------------------
(* The tracee as the kernel sees it.                                       *)
(*   st       "none" not created, "forked" child before traceme, "tracing" *)
(*            child after traceme and before exec, "running",              *)
(*            "trace_stop" stopped under ptrace, "group_stop" stopped and   *)
(*            not traced, "zombie" dead and not reaped, "reaped"           *)
(*   traced   the debugger is its tracer                                   *)
(*   child    it is the debugger's child (launched)                        *)
(*   reported the current ptrace stop was already returned by a wait       *)
(*   pending  signals sent and not yet delivered                           *)
(*   ws       the wait status of its current stop or of its death          *)
NoTracee ==
    [st |-> "none", traced |-> FALSE, child |-> FALSE, reported |-> FALSE,
     pending |-> {}, ws |-> NoStatus]
ExistingTarget == [NoTracee EXCEPT !.st = "running"]
Alive(t) == t.st \in {"forked", "tracing", "running", "trace_stop", "group_stop"}
Exists(t) == Alive(t) \/ t.st = "zombie"
InTraceStop(t) == t.traced /\ t.st = "trace_stop"

(* ptrace::attach(pid): the kernel may refuse (permission, no such         *)
(* process); on success the target is traced and is sent SIGSTOP.          *)
PtraceAttach(pid, t) ==
    {[ok |-> FALSE, t |-> t]} \cup
    (IF pid # 0 /\ t.st = "running" /\ ~t.traced
     THEN {[ok |-> TRUE,
            t |-> [t EXCEPT !.traced = TRUE, !.pending = @ \cup {"SIGSTOP"}]]}
     ELSE {})

(* ptrace::cont(pid, None): needs a tracee stopped under ptrace. *)
PtraceCont(t) ==
    IF InTraceStop(t)
    THEN {[ok |-> TRUE, t |-> [t EXCEPT !.st = "running", !.ws = NoStatus]]}
    ELSE {[ok |-> FALSE, t |-> t]}

(* ptrace::detach(pid, None): needs a tracee stopped under ptrace; the     *)
(* tracee is released and resumed.                                         *)
PtraceDetach(t) ==
    IF InTraceStop(t)
    THEN {[ok |-> TRUE,
           t |-> [t EXCEPT !.st = "running", !.traced = FALSE, !.ws = NoStatus]]}
    ELSE {[ok |-> FALSE, t |-> t]}

(* kill(pid, signal): fails only when the process does not exist.          *)
(* SIGCONT discards pending stop signals and resumes a group-stopped       *)
(* process; it does not release a ptrace stop.                             *)
Kill(t, sig) ==
    IF ~Exists(t) THEN {[ok |-> FALSE, t |-> t]}
    ELSE IF ~Alive(t) THEN {[ok |-> TRUE, t |-> t]}
    ELSE IF sig = "SIGCONT"
    THEN {[ok |-> TRUE,
           t |-> [t EXCEPT !.pending = @ \ {"SIGSTOP"},
                           !.st = IF @ = "group_stop" THEN "running" ELSE @]]}
    ELSE {[ok |-> TRUE, t |-> [t EXCEPT !.pending = @ \cup {sig}]]}

(* waitpid(pid, None): returns an unreported ptrace stop or reaps a dead   *)
(* tracee or child; fails when there is nothing to wait for, or when the   *)
(* call is interrupted; otherwise it blocks (no successful outcome).       *)
Waitpid(t) ==
    {[ok |-> FALSE, ws |-> NoStatus, t |-> t]} \cup
    (IF InTraceStop(t) /\ ~t.reported
     THEN {[ok |-> TRUE, ws |-> t.ws, t |-> [t EXCEPT !.reported = TRUE]]}
     ELSE {}) \cup
    (IF t.st = "zombie" /\ (t.traced \/ t.child)
     THEN {[ok |-> TRUE, ws |-> t.ws,
            t |-> [t EXCEPT !.st = "reaped", !.traced = FALSE]]}
     ELSE {})

(* waitpid has nothing to wait for (ECHILD): no such process, or a        *)
(* process that is neither traced by nor a child of the debugger.          *)
NothingToWaitFor(t) == ~Exists(t) \/ (~t.traced /\ ~t.child)

(* The outcomes of waitpid that need no interruption: a status, or the     *)
(* error of having nothing to wait for.  With none of them the call blocks. *)
WaitpidReturns(t) == {o \in Waitpid(t) : o.ok \/ NothingToWaitFor(t)}

-----------------------------------------------------------------------------
VARIABLES
    pc,          \* where the debugger is in main
    args,        \* the parsed command line (Cli)
    process,     \* the Process value
    constructed, \* a Process value has been constructed
    teardowns,   \* how many times Drop::drop has been entered
    exitVia,     \* why the Process scope ended
    result,      \* how main ended
    line,        \* the line read by the command loop
    cmdOps,      \* Controller operations called for the current line
    diag,        \* what the current line wrote to the error stream
    out,         \* what the current line wrote to standard output
    lastStatus,  \* WaitStatus of the last successful wait_on_signal
    lastReason,  \* StopReason returned by the last successful wait_on_signal
    issued,      \* operating-system calls issued so far by the debugger
    dropLog,     \* operating-system calls issued by Drop::drop, in order
    dropState,   \* Process state when Drop::drop was entered
    tracee,      \* the target process, as the kernel sees it
    childRet     \* the error the forked child returned from launch into main

vars == <<pc, args, process, constructed, teardowns, exitVia, result, line,
          cmdOps, diag, out, lastStatus, lastReason, issued, dropLog,
          dropState, tracee, childRet>>

cmdVars == <<line, cmdOps, diag, out>>
dropVars == <<teardowns, dropLog, dropState>>

Init ==
    /\ pc = "start"
    /\ args \in ArgSets
    /\ process = NoProcess
    /\ constructed = FALSE
    /\ teardowns = 0
    /\ exitVia = "none"
    /\ result = "none"
    /\ line = <<>>
    /\ cmdOps = <<>>
    /\ diag = "none"
    /\ out = <<>>
    /\ lastStatus = NoStatus
    /\ lastReason = NoReason
    /\ issued = {}
    /\ dropLog = <<>>
    /\ dropState = "None"
    /\ tracee = IF args.pid # None THEN ExistingTarget ELSE NoTracee
    /\ childRet = "none"

-----------------------------------------------------------------------------
(* main: Cli::parse() and the match on (cli.pid, cli.path).  clap rejects  *)
(* both arguments together (conflicts_with); neither reaches the           *)
(* unreachable!() arm.                                                     *)
CliParse ==
    /\ pc = "start"
    /\ pc' = CASE args.pid # None /\ args.path # None -> "exited"
               [] args.pid # None /\ args.path = None -> "attach"
               [] args.pid = None /\ args.path # None -> "launch"
               [] OTHER -> "exited"
    /\ result' = CASE args.pid # None /\ args.path # None -> "usage"
                   [] args.pid = None /\ args.path = None -> "panic"
                   [] OTHER -> result
    /\ UNCHANGED <<args, process, constructed, exitVia, cmdVars, lastStatus,
                   lastReason, issued, dropVars, tracee, childRet>>

InvalidPid_Never(pid) == FALSE
(* attach: pid.0.as_raw() == 0 *)
InvalidPid(pid) == pid = 0

(* Process::attach up to the construction of the Process value. *)
Attach ==
    /\ pc = "attach"
    /\ LET pid == args.pid[1] IN
       IF InvalidPid(pid)
       THEN /\ pc' = "exited"
            /\ result' = "InvalidPid"
            /\ UNCHANGED <<process, constructed, issued, tracee>>
       ELSE \E o \in PtraceAttach(pid, tracee) :
              /\ issued' = issued \cup {"attach"}
              /\ tracee' = o.t
              /\ IF o.ok
                 THEN /\ process' = NewProcess(pid, FALSE)
                      /\ constructed' = TRUE
                      /\ pc' = "init_wait"
                      /\ result' = result
                 ELSE /\ pc' = "exited"
                      /\ result' = "Attach"
                      /\ UNCHANGED <<process, constructed>>
    /\ UNCHANGED <<args, exitVia, cmdVars, lastStatus, lastReason, dropVars,
                   childRet>>

(* Process::launch in the parent: fork() and the construction of the       *)
(* Process value.                                                          *)
Launch ==
    /\ pc = "launch"
    /\ issued' = issued \cup {"fork"}
    /\ \/ /\ pc' = "exited"
          /\ result' = "Fork"
          /\ UNCHANGED <<process, constructed, tracee>>
       \/ \E child \in ChildPids :
            /\ process' = NewProcess(child, TRUE)
            /\ constructed' = TRUE
            /\ tracee' = [NoTracee EXCEPT !.st = "forked", !.child = TRUE]
            /\ pc' = "init_wait"
            /\ result' = result
    /\ UNCHANGED <<args, exitVia, cmdVars, lastStatus, lastReason, dropVars,
                   childRet>>

(* Process::launch in the child: ptrace::traceme().  On failure the `?`    *)
(* returns Err(Traceme) out of launch into main, which returns it, and the *)
(* child ends with exit status 1.                                          *)
ChildTraceme ==
    /\ tracee.st = "forked"
    /\ \/ /\ tracee' = [tracee EXCEPT !.st = "tracing", !.traced = TRUE]
          /\ childRet' = childRet
       \/ /\ tracee' = [tracee EXCEPT !.st = "zombie", !.ws = WExited(1)]
          /\ childRet' = "Traceme"
    /\ UNCHANGED <<pc, args, process, constructed, exitVia, result, cmdVars,
                   lastStatus, lastReason, issued, dropVars>>

(* CString::new(path.as_os_str().as_bytes()) succeeds. *)
Encodable(path) == path # "nul"

(* Process::launch in the child: CString::new and execvp.  A path that     *)
(* cannot be encoded makes the `?` return Err(Exec) out of launch into     *)
(* main, and the child ends with exit status 1.  A started program stops   *)
(* with SIGTRAP because it is traced; a failed exec prints and calls       *)
(* exit(1).                                                                *)
ChildExec ==
    /\ tracee.st = "tracing"
    /\ tracee' = IF Encodable(args.path[1]) /\ args.path[1] = "good"
                 THEN [tracee EXCEPT !.st = "trace_stop", !.reported = FALSE,
                                     !.ws = WStopped("SIGTRAP")]
                 ELSE [tracee EXCEPT !.st = "zombie", !.ws = WExited(1)]
    /\ childRet' = IF Encodable(args.path[1]) THEN childRet ELSE "Exec"
    /\ UNCHANGED <<pc, args, process, constructed, exitVia, result, cmdVars,
                   lastStatus, lastReason, issued, dropVars>>

StateAfterWait_Stale(p, reason) == p
(* wait_on_signal: self.state = reason.reason.clone() *)
StateAfterWait(p, reason) == [p EXCEPT !.state = reason.reason]

AfterInitialWaitError_Leak == "exited"
(* launch/attach: `process.wait_on_signal()?` returns early and the local  *)
(* Process value goes out of scope.                                        *)
AfterInitialWaitError == "drop"

(* The initial process.wait_on_signal() of launch and attach. *)
InitialWait ==
    /\ pc = "init_wait"
    /\ \E o \in Waitpid(tracee) :
         /\ tracee' = o.t
         /\ issued' = issued \cup {"waitpid"}
         /\ IF o.ok
            THEN /\ process' = StateAfterWait(process, StopReasonFrom(o.ws))
                 /\ lastStatus' = o.ws
                 /\ lastReason' = StopReasonFrom(o.ws)
                 /\ pc' = "history"
                 /\ exitVia' = exitVia
            ELSE /\ pc' = AfterInitialWaitError
                 /\ exitVia' = "Wait"
                 /\ UNCHANGED <<process, lastStatus, lastReason>>
    /\ UNCHANGED <<args, constructed, result, cmdVars, dropVars, childRet>>

(* main: FileBackedHistory::with_file(..).expect(..); a failure panics and *)
(* the unwinding drops the Process.                                        *)
ConfigureHistory ==
    /\ pc = "history"
    /\ \/ pc' = "read" /\ exitVia' = exitVia
       \/ pc' = "drop" /\ exitVia' = "panic"
    /\ UNCHANGED <<args, process, constructed, result, cmdVars, lastStatus,
                   lastReason, issued, dropVars, tracee, childRet>>

(* main: line_editor.read_line and the match on its result. *)
ReadLine ==
    /\ pc = "read"
    /\ cmdOps' = <<>>
    /\ out' = <<>>
    /\ \/ \E ln \in Lines :
            /\ line' = ln
            /\ diag' = "none"
            /\ pc' = "command"
            /\ exitVia' = exitVia
       \/ /\ line' = <<>>
          /\ diag' = "none"
          /\ pc' = "drop"
          /\ exitVia' = "break"
       \/ /\ line' = <<>>
          /\ diag' = "Unhandled Reedline event"
          /\ pc' = "read"
          /\ exitVia' = exitVia
    /\ UNCHANGED <<args, process, constructed, result, lastStatus, lastReason,
                   issued, dropVars, tracee, childRet>>

AfterCommandError_Propagate == "drop"
(* main: handle_command(..).unwrap_or_else(|e| eprintln!(..)) and the loop *)
AfterCommandError == "read"

ResumeOutcome_Optimistic(p, ok) == [p EXCEPT !.state = "Running"]
(* resume: `ptrace::cont(..)?` returns early on an error; only after a      *)
(* success self.state = ProcessState::Running.                             *)
ResumeOutcome(p, ok) == IF ok THEN [p EXCEPT !.state = "Running"] ELSE p

NextAfterResume_IgnoreError(ok) == "command_wait"
(* handle_command: `process.resume()?` returns the error to main, and only *)
(* a success goes on to process.wait_on_signal().                          *)
NextAfterResume(ok) == IF ok THEN "command_wait" ELSE AfterCommandError

(* handle_command up to and including process.resume(), or the else arm. *)
HandleCommand ==
    /\ pc = "command"
    /\ IF IsContinue(FirstToken(line))
       THEN \E o \in PtraceCont(tracee) :
              /\ tracee' = o.t
              /\ issued' = issued \cup {"cont"}
              /\ cmdOps' = Append(cmdOps, "resume")
              /\ process' = ResumeOutcome(process, o.ok)
              /\ pc' = NextAfterResume(o.ok)
              /\ diag' = IF o.ok THEN diag ELSE "Failed to resume inferior process"
       ELSE /\ diag' = "Unknown command"
            /\ pc' = "read"
            /\ UNCHANGED <<tracee, issued, cmdOps, process>>
    /\ UNCHANGED <<args, constructed, exitVia, result, line, out, lastStatus,
                   lastReason, dropVars, childRet>>

(* impl Display for StopReason: the text and the unwrapped field.  An     *)
(* unwrap() of an absent field panics.                                    *)
DisplayPanics(r) ==
    \/ r.reason = "Exited" /\ r.exit_status = None
    \/ r.reason \in {"Terminated", "Stopped"} /\ r.signal = None
Display(r) ==
    [text |-> CASE r.reason = "Exited" -> "exited with status: "
                [] r.reason = "Terminated" -> "terminated with signal: "
                [] r.reason = "Stopped" -> "stopped with signal: "
                [] OTHER -> "",
     exit_status |-> IF r.reason = "Exited" THEN r.exit_status ELSE None,
     signal |-> IF r.reason \in {"Terminated", "Stopped"} THEN r.signal ELSE None]

PrintStopReason_Silent(p, r) == <<>>
(* print_stop_reason: the lines it writes to standard output. *)
PrintStopReason(p, r) ==
    IF r.reason = "Running" THEN <<>>
    ELSE << [pid |-> p.pid, desc |-> Display(r)] >>

(* handle_command: process.wait_on_signal()? and print_stop_reason. *)
CommandWait ==
    /\ pc = "command_wait"
    /\ \E o \in Waitpid(tracee) :
         /\ tracee' = o.t
         /\ issued' = issued \cup {"waitpid"}
         /\ cmdOps' = Append(cmdOps, "wait_on_signal")
         /\ IF o.ok
            THEN /\ process' = StateAfterWait(process, StopReasonFrom(o.ws))
                 /\ lastStatus' = o.ws
                 /\ lastReason' = StopReasonFrom(o.ws)
                 /\ out' = PrintStopReason(process', StopReasonFrom(o.ws))
                 /\ diag' = diag
                 /\ pc' = "read"
            ELSE /\ diag' = "Failed waiting for signal on inferior process"
                 /\ pc' = AfterCommandError
                 /\ UNCHANGED <<process, lastStatus, lastReason, out>>
    /\ UNCHANGED <<args, constructed, exitVia, result, line, dropVars, childRet>>

-----------------------------------------------------------------------------
(* impl Drop for Process.  The result of every call is discarded. *)

NeedsStop_Never(p) == FALSE
(* drop: if let ProcessState::Running = self.state *)
NeedsStop(p) == p.state = "Running"

KillsOnEnd_Always(p) == TRUE
(* drop: if self.terminate_on_end *)
KillsOnEnd(p) == p.terminate_on_end

(* main's result once the Process scope has ended. *)
ResultOf(via) ==
    CASE via = "break" -> "Ok"
      [] via = "Wait" -> "Wait"
      [] via = "panic" -> "panic"
      [] OTHER -> "none"

StopSignal_Continue == "SIGCONT"
(* drop: nix::sys::signal::Signal::SIGSTOP *)
StopSignal == "SIGSTOP"

(* drop: the sentinel guard, then kill(pid, SIGSTOP) when Running. *)
DropEnter ==
    /\ pc = "drop"
    /\ teardowns' = teardowns + 1
    /\ dropState' = process.state
    /\ IF process.pid = 0
       THEN /\ pc' = "exited"
            /\ result' = ResultOf(exitVia)
            /\ UNCHANGED <<tracee, issued, dropLog>>
       ELSE IF NeedsStop(process)
       THEN \E o \in Kill(tracee, StopSignal) :
              /\ tracee' = o.t
              /\ issued' = issued \cup {StopSignal}
              /\ dropLog' = Append(dropLog, StopSignal)
              /\ pc' = "drop_stop_wait"
              /\ result' = result
       ELSE /\ pc' = "drop_detach"
            /\ UNCHANGED <<tracee, issued, dropLog, result>>
    /\ UNCHANGED <<args, process, constructed, exitVia, cmdVars, lastStatus,
                   lastReason, childRet>>

(* drop: waitpid(pid, None) after the stop signal, with an outcome of O. *)
DropStopWaitOn(O) ==
    /\ pc = "drop_stop_wait"
    /\ \E o \in O :
         /\ tracee' = o.t
         /\ issued' = issued \cup {"waitpid"}
         /\ dropLog' = Append(dropLog, "waitpid")
    /\ pc' = "drop_detach"
    /\ UNCHANGED <<args, process, constructed, teardowns, dropState, exitVia,
                   result, cmdVars, lastStatus, lastReason, childRet>>

DropStopWait == DropStopWaitOn(Waitpid(tracee))

(* drop: ptrace::detach(pid, None). *)
DropDetach ==
    /\ pc = "drop_detach"
    /\ \E o \in PtraceDetach(tracee) :
         /\ tracee' = o.t
         /\ issued' = issued \cup {"detach"}
         /\ dropLog' = Append(dropLog, "detach")
    /\ pc' = "drop_cont"
    /\ UNCHANGED <<args, process, constructed, teardowns, dropState, exitVia,
                   result, cmdVars, lastStatus, lastReason, childRet>>

(* drop: kill(pid, SIGCONT), then the test of terminate_on_end. *)
DropCont ==
    /\ pc = "drop_cont"
    /\ \E o \in Kill(tracee, "SIGCONT") :
         /\ tracee' = o.t
         /\ issued' = issued \cup {"SIGCONT"}
         /\ dropLog' = Append(dropLog, "SIGCONT")
    /\ IF KillsOnEnd(process)
       THEN pc' = "drop_kill" /\ result' = result
       ELSE pc' = "exited" /\ result' = ResultOf(exitVia)
    /\ UNCHANGED <<args, process, constructed, teardowns, dropState, exitVia,
                   cmdVars, lastStatus, lastReason, childRet>>

(* drop: kill(pid, SIGKILL). *)
DropKill ==
    /\ pc = "drop_kill"
    /\ \E o \in Kill(tracee, "SIGKILL") :
         /\ tracee' = o.t
         /\ issued' = issued \cup {"SIGKILL"}
         /\ dropLog' = Append(dropLog, "SIGKILL")
    /\ pc' = "drop_kill_wait"
    /\ UNCHANGED <<args, process, constructed, teardowns, dropState, exitVia,
                   result, cmdVars, lastStatus, lastReason, childRet>>

(* drop: waitpid(pid, None) after the kill signal, with an outcome of O;  *)
(* the scope has ended.                                                   *)
DropKillWaitOn(O) ==
    /\ pc = "drop_kill_wait"
    /\ \E o \in O :
         /\ tracee' = o.t
         /\ issued' = issued \cup {"waitpid"}
         /\ dropLog' = Append(dropLog, "waitpid")
    /\ pc' = "exited"
    /\ result' = ResultOf(exitVia)
    /\ UNCHANGED <<args, process, constructed, teardowns, dropState, exitVia,
                   cmdVars, lastStatus, lastReason, childRet>>
DropKillWait == DropKillWaitOn(Waitpid(tracee))

-----------------------------------------------------------------------------
(* The tracee's own steps. *)
progVars == <<pc, args, process, constructed, exitVia, result, cmdVars,
              lastStatus, lastReason, issued, dropVars, childRet>>

(* A running traced process stops under ptrace when a signal is about to   *)
(* be delivered to it: the pending SIGSTOP, or a signal from elsewhere.    *)
TraceeStops ==
    /\ tracee.st = "running" /\ tracee.traced
    /\ "SIGKILL" \notin tracee.pending
    /\ \E sig \in {"SIGINT"} \cup (tracee.pending \cap {"SIGSTOP"}) :
         tracee' = [tracee EXCEPT !.st = "trace_stop", !.reported = FALSE,
                                  !.ws = WStopped(sig), !.pending = @ \ {sig}]
    /\ UNCHANGED progVars

(* A running untraced process with a pending SIGSTOP stops. *)
TraceeGroupStop ==
    /\ tracee.st = "running" /\ ~tracee.traced
    /\ "SIGSTOP" \in tracee.pending /\ "SIGKILL" \notin tracee.pending
    /\ tracee' = [tracee EXCEPT !.st = "group_stop", !.pending = @ \ {"SIGSTOP"}]
    /\ UNCHANGED progVars

(* The running program exits by itself. *)
TraceeExits ==
    /\ tracee.st = "running"
    /\ "SIGKILL" \notin tracee.pending
    /\ tracee' = [tracee EXCEPT !.st = "zombie", !.ws = WExited(0)]
    /\ UNCHANGED progVars

(* SIGKILL, the pending one or one from elsewhere, ends the process in     *)
(* whatever state it is.                                                    *)
TraceeKilled ==
    /\ Alive(tracee)
    /\ tracee' = [tracee EXCEPT !.st = "zombie", !.ws = WSignaled("SIGKILL"),
                                !.pending = {}]
    /\ UNCHANGED progVars

-----------------------------------------------------------------------------
Next ==
    \/ CliParse
    \/ Attach
    \/ Launch
    \/ ChildTraceme
    \/ ChildExec
    \/ InitialWait
    \/ ConfigureHistory
    \/ ReadLine
    \/ HandleCommand
    \/ CommandWait
    \/ DropEnter
    \/ DropStopWait
    \/ DropDetach
    \/ DropCont
    \/ DropKill
    \/ DropKillWait
    \/ TraceeStops
    \/ TraceeGroupStop
    \/ TraceeExits
    \/ TraceeKilled

Spec == Init /\ [][Next]_vars

(* The kernel delivers a stop or kill signal it has accepted. *)
DeliverStop == "SIGSTOP" \in tracee.pending /\ TraceeStops
DeliverKill == "SIGKILL" \in tracee.pending /\ TraceeKilled

(* Drop::drop is straight-line code on the only thread: each of its calls  *)
(* is made, a blocking waitpid returns once the kernel has a status or an  *)
(* error for it, and accepted stop and kill signals are delivered.         *)
TeardownFairness ==
    /\ WF_vars(DropEnter)
    /\ WF_vars(DropStopWaitOn(WaitpidReturns(tracee)))
    /\ WF_vars(DropDetach)
    /\ WF_vars(DropCont)
    /\ WF_vars(DropKill)
    /\ WF_vars(DropKillWaitOn(WaitpidReturns(tracee)))
    /\ WF_vars(DeliverStop)
    /\ WF_vars(DeliverKill)
FairSpec == Spec /\ TeardownFairness

-----------------------------------------------------------------------------
(* Helpers of the properties below. *)
IsPrefix(a, b) == Len(a) <= Len(b) /\ SubSeq(b, 1, Len(a)) = a
ExpectedTeardown(st, owns) ==
    (IF st = "Running" THEN <<"SIGSTOP", "waitpid">> ELSE <<>>)
    \o <<"detach", "SIGCONT">>
    \o (IF owns THEN <<"SIGKILL", "waitpid">> ELSE <<>>)
TornDown == pc = "exited" /\ teardowns = 1
CommandErrors == {"Failed to resume inferior process",
                  "Failed waiting for signal on inferior process"}
NonEmptyPrefixes == {SubSeq(CommandName, 1, k) : k \in 1..Len(CommandName)}
(* ln[i..j] is the first whitespace-separated token of ln. *)
FirstTokenAt(ln, i, j) ==
    /\ \A k \in 1..(i - 1) : ln[k] = " "
    /\ \A k \in i..j : ln[k] # " "
    /\ (j = Len(ln) \/ ln[j + 1] = " ")

\* C1: in every teardown of a Process whose id is not 0 the calls are, in
\* this order: SIGSTOP and a wait exactly when the state is Running, then
\* detach, then SIGCONT, then SIGKILL and a wait exactly when
\* terminate_on_end is set.  The calls issued so far are always a prefix of
\* that sequence and a finished teardown issued all of it.
C1_TeardownOrder ==
    process.pid # 0 =>
        /\ IsPrefix(dropLog,
                    ExpectedTeardown(process.state, process.terminate_on_end))
        /\ (TornDown =>
              dropLog = ExpectedTeardown(process.state, process.terminate_on_end))
C1_Witness ==
    /\ TornDown
    /\ process.terminate_on_end
    /\ process.state = "Running"
    /\ dropLog = <<"SIGSTOP", "waitpid", "detach", "SIGCONT", "SIGKILL", "waitpid">>

\* C2: an attached Process (terminate_on_end false) never has SIGKILL sent
\* to its target; a launched Process has SIGKILL and then a wait as the
\* last two calls of its teardown.
C2_KillOnlyWhenLaunched ==
    /\ (args.path = None => "SIGKILL" \notin issued)
    /\ (constructed /\ ~process.terminate_on_end => "SIGKILL" \notin issued)
    /\ (TornDown /\ process.terminate_on_end =>
          /\ Len(dropLog) >= 2
          /\ SubSeq(dropLog, Len(dropLog) - 1, Len(dropLog)) = <<"SIGKILL", "waitpid">>)
C2_Witness ==
    /\ TornDown
    /\ ~process.terminate_on_end
    /\ "cont" \in issued
    /\ exitVia = "break"

\* C3: after teardown has completed the target is never both stopped and
\* still traced by the debugger.
C3_NeverStoppedAndTraced ==
    TornDown => ~(tracee.traced /\ tracee.st \in {"trace_stop", "group_stop"})

\* C4: a constructed Process is torn down exactly once on every exit path
\* (break out of the loop, the error return of a failed initial wait, the
\* unwinding panic), never more than once, and once teardown has begun no
\* resume or wait_on_signal is called on it again.
C4_Once ==
    /\ teardowns <= 1
    /\ (teardowns = 1 => constructed)
    /\ (pc = "exited" /\ constructed => teardowns = 1)
C4_NothingAfterTeardown ==
    teardowns = 1 =>
        /\ teardowns' = 1
        /\ cmdOps' = cmdOps
        /\ lastStatus' = lastStatus
        /\ process' = process
        /\ pc' \notin {"attach", "launch", "init_wait", "command", "command_wait"}
C4_TornDownExactlyOnce == []C4_Once /\ [][C4_NothingAfterTeardown]_vars
C4_Witness ==
    /\ TornDown
    /\ exitVia = "Wait"
    /\ result = "Wait"

\* C5: after a resume that succeeded and a wait_on_signal that succeeded the
\* state is the variant the wait reported (Exited for an exit, Terminated
\* for a death by signal, Stopped for a stop), never Running, and no
\* StopReason returned by wait_on_signal is Running.
C5_StateAfterResumeAndWait ==
    /\ lastReason.reason # "Running"
    /\ (pc = "read" /\ cmdOps = <<"resume", "wait_on_signal">> /\ diag = "none" =>
          /\ process.state = lastReason.reason
          /\ process.state \in {"Exited", "Terminated", "Stopped"}
          /\ (lastStatus.kind = "Exited" <=> process.state = "Exited")
          /\ (lastStatus.kind = "Signaled" <=> process.state = "Terminated")
          /\ (lastStatus.kind = "Stopped" <=> process.state = "Stopped"))
C5_Witness ==
    /\ pc = "read"
    /\ cmdOps = <<"resume", "wait_on_signal">>
    /\ diag = "none"
    /\ lastStatus.kind = "Signaled"
    /\ process.state = "Terminated"

\* C6: the state is not Running whenever the command loop waits for the
\* next line, and no continue request is issued while the state is Running.
C6_NoResumeWhileRunning ==
    /\ (pc = "read" => process.state # "Running")
    /\ (pc = "command" /\ IsContinue(FirstToken(line)) => process.state # "Running")

\* C7: launch with a nonexistent path (the child reaches execvp, which
\* fails): the child ends with a non-zero exit status, and launch never
\* returns Ok (main never gets past it).
C7_NoFalseSuccess ==
    (args.path = Some("missing") /\ args.pid = None /\ childRet = "none"
        /\ tracee.ws.kind = "Exited") =>
        /\ tracee.ws.code # 0
        /\ pc \notin {"history", "read", "command", "command_wait"}

\* C8: attach with pid 0 fails with InvalidPid; no attach request, no wait
\* and no other call is issued, no Process is constructed and no teardown
\* runs.
C8_AttachZeroRejected ==
    (args.pid = Some(0) /\ args.path = None) =>
        /\ issued = {}
        /\ ~constructed
        /\ teardowns = 0
        /\ dropLog = <<>>
        /\ pc \in {"start", "attach", "exited"}
        /\ (pc = "exited" => result = "InvalidPid")
C8_Witness ==
    /\ args.pid = Some(0)
    /\ pc = "exited"
    /\ result = "InvalidPid"

\* C9: a command whose resume or wait is rejected reports the error and the
\* loop reads the next line: the command never leaves the loop, never ends
\* main and never starts the teardown of the Process.
C9_AfterError ==
    diag \in CommandErrors =>
        /\ pc = "read"
        /\ teardowns = 0
        /\ result = "none"
        /\ constructed
C9_CommandStep ==
    (pc \in {"command", "command_wait"} /\ pc' # pc) =>
        /\ (pc' = "read" \/ (pc = "command" /\ pc' = "command_wait"))
        /\ (cmdOps' # cmdOps /\ tracee' = tracee => diag' \in CommandErrors)
        /\ teardowns' = 0
        /\ result' = "none"
C9_CommandErrorsKeepSession == []C9_AfterError /\ [][C9_CommandStep]_vars
C9_Witness ==
    /\ pc = "read"
    /\ diag = "Failed waiting for signal on inferior process"
    /\ cmdOps = <<"resume", "wait_on_signal">>

\* C10: a line whose first token is not empty dispatches to continue exactly
\* when that token is a prefix of "continue"; any other token calls no
\* Controller operation and gives the unknown-command diagnostic.  What
\* follows the first token plays no part.
C10_PrefixDispatch ==
    pc \in {"read", "command_wait"} =>
        \A i \in 1..Len(line) : \A j \in i..Len(line) :
            FirstTokenAt(line, i, j) =>
                LET tok == SubSeq(line, i, j) IN
                /\ (tok \in NonEmptyPrefixes =>
                      cmdOps # <<>> /\ cmdOps[1] = "resume" /\ diag # "Unknown command")
                /\ (tok \notin NonEmptyPrefixes =>
                      cmdOps = <<>> /\ diag = "Unknown command" /\ out = <<>>)
C10_Witness ==
    /\ pc = "read"
    /\ line = <<" ", " ", "c", "o", " ", "x">>
    /\ cmdOps = <<"resume", "wait_on_signal">>
    /\ out # <<>>


\* C11: an empty or whitespace-only line matches no command: it calls no
\* resume and no wait_on_signal, and a handled blank line gives the
\* unknown-command diagnostic.
C11_BlankLineIsUnknown ==
    (\A k \in 1..Len(line) : line[k] = " ") =>
        /\ pc # "command_wait"
        /\ cmdOps = <<>>
        /\ (pc = "read" /\ line # <<>> => diag = "Unknown command")


(* The line 'Process <id> <description>' that belongs to a wait status. *)
ExpectedLine(pid, ws) ==
    [pid |-> pid,
     desc |-> [text |-> CASE ws.kind = "Exited" -> "exited with status: "
                          [] ws.kind = "Signaled" -> "terminated with signal: "
                          [] ws.kind = "Stopped" -> "stopped with signal: "
                          [] OTHER -> "?",
               exit_status |-> IF ws.kind = "Exited" THEN <<ws.code>> ELSE <<>>,
               signal |-> IF ws.kind \in {"Signaled", "Stopped"}
                          THEN <<ws.sig>> ELSE <<>>]]
ContinueSucceeded ==
    pc = "read" /\ cmdOps = <<"resume", "wait_on_signal">> /\ diag = "none"

\* C12 as stated: every successful wait, the initial wait of launch/attach
\* included, is followed by exactly one line 'Process <id> <description>'
\* matching the event; a failed or unknown command prints no line.
C12_LinePerStopEvent ==
    /\ (pc = "history" => out = <<ExpectedLine(process.pid, lastStatus)>>)
    /\ (ContinueSucceeded => out = <<ExpectedLine(process.pid, lastStatus)>>)
    /\ (diag # "none" => out = <<>>)

\* C12 as amended: every successful wait of a continue command is followed
\* by exactly one line 'Process <id> <description>' matching the event; the
\* initial wait of launch/attach prints nothing, and neither does a failed
\* or an unknown command.
C12_LinePerContinueStop ==
    /\ (pc \in {"start", "attach", "launch", "init_wait", "history",
                "command", "command_wait"} => out = <<>>)
    /\ (ContinueSucceeded => out = <<ExpectedLine(process.pid, lastStatus)>>)
    /\ (diag # "none" => out = <<>>)
C12_Witness ==
    /\ ContinueSucceeded
    /\ lastStatus = WExited(0)
    /\ out = <<[pid |-> 8,
                desc |-> [text |-> "exited with status: ",
                          exit_status |-> <<0>>, signal |-> <<>>]]>>


\* C13: when the state is Exited or Terminated at the time the scope ends
\* (the target was already reaped by a successful wait), teardown sends no
\* SIGKILL to that process id.
C13_NoKillAfterExit ==
    dropState \in {"Exited", "Terminated"} =>
        \A k \in 1..Len(dropLog) : dropLog[k] # "SIGKILL"


\* C14: startup arguments: exactly one of pid and path leads to attach or
\* launch; neither or both ends in a usage error, never in a panic and
\* never in a Process.
C14_UsageError ==
    /\ ((args.pid = None) = (args.path = None) =>
          /\ ~constructed
          /\ issued = {}
          /\ result # "panic"
          /\ (pc = "exited" => result = "usage"))
    /\ (args.pid # None /\ args.path = None => "fork" \notin issued)
    /\ (args.pid = None /\ args.path # None => "attach" \notin issued)


LaunchReturnedOk == pc \in {"history", "read", "command", "command_wait"}

\* C15: launch reports its failures to its caller: a failed fork gives the
\* Fork error with no Process and no child; a path that cannot be encoded
\* never gives a Process, and the error the parent's launch call returns
\* for it is the invalid-target (Exec) error.
C15_LaunchErrors ==
    /\ (result = "Fork" => ~constructed /\ tracee.st = "none")
    /\ ((args.pid = None /\ args.path = Some("nul") /\ childRet = "Exec") =>
          /\ ~LaunchReturnedOk
          /\ (pc = "exited" /\ result # "Fork" => result = "Exec"))


\* C17: in the child created by launch a failed trace-on-exec request ends
\* the child with a non-zero status, and the child never returns (an error
\* or anything else) from launch into the caller's code.
C17_ChildNeverReturns ==
    /\ childRet = "none"
    /\ (tracee.st = "zombie" /\ ~tracee.traced /\ tracee.child
          /\ tracee.ws.kind = "Exited" => tracee.ws.code # 0)


(* The ProcessState that belongs to a wait status kind. *)
StateOfKind(k) ==
    CASE k = "Exited" -> "Exited"
      [] k = "Signaled" -> "Terminated"
      [] k = "Stopped" -> "Stopped"
      [] OTHER -> "?"
(* This step is a ptrace::cont that the kernel accepted. *)
ContAccepted == InTraceStop(tracee) /\ tracee'.st = "running"
(* This step is a waitpid that returned a status. *)
WaitReturned ==
    /\ lastStatus' = tracee.ws
    /\ \/ InTraceStop(tracee) /\ ~tracee.reported /\ tracee'.reported
       \/ tracee.st = "zombie" /\ tracee'.st = "reaped"
(* This step is a resume or a wait_on_signal. *)
ControllerStep ==
    \/ pc \in {"command", "command_wait"} /\ cmdOps' # cmdOps
    \/ pc = "init_wait" /\ pc' # pc
C16_Step ==
    /\ (constructed /\ process' # process =>
          /\ process'.pid = process.pid
          /\ process'.terminate_on_end = process.terminate_on_end
          /\ \/ /\ pc = "command" /\ ContAccepted
                /\ process'.state = "Running"
             \/ /\ pc \in {"init_wait", "command_wait"} /\ WaitReturned
                /\ process'.state = StateOfKind(tracee.ws.kind))
    /\ (ControllerStep /\ ~ContAccepted /\ ~WaitReturned => process' = process)

\* C16: the state of a Process changes only in a step in which an
\* operating-system call has just succeeded (an accepted continue request
\* sets Running, a wait that returned sets the decoded variant); a resume
\* or wait_on_signal whose call fails leaves state, id and
\* terminate_on_end as they were.
C16_StateChangesOnlyOnSuccess == [][C16_Step]_vars
C16_Witness ==
    /\ pc = "read"
    /\ diag = "Failed to resume inferior process"
    /\ process.state = "Exited"
    /\ cmdOps = <<"resume">>


C18_Shape ==
    /\ cmdOps \in {<<>>, <<"resume">>, <<"resume", "wait_on_signal">>}
    /\ (pc = "command_wait" => cmdOps = <<"resume">> /\ process.state = "Running")
    /\ (pc = "read" /\ cmdOps = <<"resume">> =>
          diag = "Failed to resume inferior process" /\ out = <<>>)
    /\ (ContinueSucceeded => Len(out) = 1 /\ out[1].desc.text # "")
C18_Step ==
    /\ (pc = "command" /\ cmdOps' # cmdOps =>
          IF ContAccepted
          THEN pc' = "command_wait" /\ cmdOps' = <<"resume">>
          ELSE /\ pc' = "read"
               /\ cmdOps' = <<"resume">>
               /\ process' = process
               /\ out' = <<>>
               /\ diag' = "Failed to resume inferior process")
    /\ (pc = "command_wait" /\ pc' # pc =>
          cmdOps' = <<"resume", "wait_on_signal">>)
    /\ (pc = "command" /\ cmdOps' # cmdOps
          /\ process.state \in {"Exited", "Terminated"} =>
          pc' = "read" /\ diag' = "Failed to resume inferior process")

\* C18: in one continue command a resume that succeeds is followed at once
\* by wait_on_signal, whose StopReason is printed when it succeeds; a
\* resume that fails is followed by no wait and no printed line and leaves
\* the state alone, and a continue issued once the state is Exited or
\* Terminated always fails in resume instead of waiting.
C18_ResumeThenWait == []C18_Shape /\ [][C18_Step]_vars
C18_Witness ==
    /\ pc = "read"
    /\ cmdOps = <<"resume">>
    /\ process.state = "Terminated"
    /\ diag = "Failed to resume inferior process"
    /\ out = <<>>


\* C19: every StopReason decoded from a wait result has exit_status exactly
\* when its reason is Exited and signal exactly when its reason is Stopped
\* or Terminated, with the values of the wait status, so rendering it never
\* unwraps an absent field.
C19_ReasonFieldsConsistent ==
    lastReason # NoReason =>
        /\ (lastReason.exit_status # None <=> lastReason.reason = "Exited")
        /\ (lastReason.signal # None <=>
              lastReason.reason \in {"Stopped", "Terminated"})
        /\ (lastReason.reason = "Exited" =>
              lastReason.exit_status = <<lastStatus.code>>)
        /\ (lastReason.reason \in {"Stopped", "Terminated"} =>
              lastReason.signal = <<lastStatus.sig>>)
        /\ ~DisplayPanics(lastReason)
C19_Witness ==
    /\ lastReason.reason = "Exited"
    /\ lastReason.exit_status = <<1>>
    /\ lastReason.signal = None


\* C20: teardown always terminates: once Drop::drop begins, in any state
\* and with either value of terminate_on_end, it reaches its end, provided
\* accepted stop and kill signals are delivered; neither of its waits
\* blocks forever.
C20_TeardownTerminates == (pc = "drop") ~> (pc = "exited")
C20_Witness ==
    /\ pc = "drop_stop_wait"
    /\ tracee.st = "running"
    /\ "SIGSTOP" \in tracee.pending
    /\ WaitpidReturns(tracee) = {}

====
